---- MODULE Spec2Model ----
(***************************************************************************)
(* A model of gobang's top-level controller, src/app.rs: the App struct,   *)
(* its event dispatcher (App::event, App::components_event,                *)
(* App::move_focus), the connection switch (App::update_databases), the    *)
(* record table refresh (App::update_record_table) and the layout ratio    *)
(* (App::extend_or_shorten_widget_width).                                  *)
(*                                                                         *)
(* The components App delegates to (connections, databases, record_table,  *)
(* tab, help, error, sql_editor, properties) and the database pools are    *)
(* modelled from their interface as the specification describes it.       *)
(***************************************************************************)
EXTENDS Integers, Sequences, FiniteSets, TLC

\* ---------------------------------------------------------------- bounds

\* Number of tables the schema tree lists.
NumTables == 2
\* Rows of table 1 (each further table has one row less, and at least one).
MaxRows == 3
\* Page size of get_records (scaled down).
RECORDS_LIMIT_PER_PAGE == 2
\* Adapter identities available to the backend.
MaxAdapters == 2
\* Cap on the rows the record table accumulates.
MaxCache == 4
\* With a connection configured, the layout ratio is explored this many
\* steps above its initial value; with none, over its whole range.
MaxWiden == 1

\* ------------------------------------------------------------- constants

\* Option::None for the numeric options of the model.
None == 0
\* App::new: left_main_chunk_percentage.
InitialPercentage == 15
\* extend_or_shorten_widget_width: floor, ceiling and step.
MinPercentage == 15
MaxPercentage == 70
PercentageStep == 5
\* u16::MAX + 1.
U16 == 65536

Min(a, b) == IF a < b THEN a ELSE b
Max(a, b) == IF a > b THEN a ELSE b

\* ------------------------------------------------------------------ keys

\* One key per binding of the key configuration that the dispatcher reads,
\* plus a key bound to nothing ("other"). The printable ones are text to an
\* input field.
Keys ==
    { "enter", "exit_popup", "scroll_down", "scroll_up", "filter",
      "open_help", "extend_right", "extend_left", "focus_connections",
      "focus_left", "focus_right", "toggle_tabs", "other" }

IsChar(key) ==
    key \in { "scroll_down", "scroll_up", "filter", "open_help",
              "extend_right", "extend_left", "focus_connections", "other" }

\* Which backend call of the event fails, if it is issued.
Fails == { "none", "open", "list_schema", "get_records", "properties", "query" }

\* ---------------------------------------------------------------- backend

Tables == 1..NumTables

TableRows(t) == Max(MaxRows + 1 - t, 1)

\* Number of columns of a table: the length of its header and of its rows.
Columns(t) == t + 1

Row(t, i) == [table |-> t, idx |-> i]

\* The filter "f" keeps the rows of even index.
Matches(row, filter) == filter = "" \/ row.idx % 2 = 0

AllRows(t, filter) ==
    SelectSeq([i \in 1..TableRows(t) |-> Row(t, i - 1)],
              LAMBDA row : Matches(row, filter))

\* Pool::get_records: at most a page of the matching rows, from offset.
GetRecords(t, offset, filter) ==
    LET all == AllRows(t, filter)
    IN  SubSeq(all, offset + 1, Min(offset + RECORDS_LIMIT_PER_PAGE, Len(all)))

\* --------------------------------------------------------------- state

VARIABLES
    focus,                       \* App.focus
    selected_tab,                \* App.tab.selected_tab
    pool,                        \* App.pool
    left_main_chunk_percentage,  \* App.left_main_chunk_percentage
    error,                       \* App.error is visible
    help,                        \* App.help is visible
    connections,                 \* App.connections: the selected connection
    databases,                   \* App.databases: tree, selection, focus
    record_table,                \* App.record_table: the record page cache
    sessions                     \* backend: the adapters whose session is open

vars == << focus, selected_tab, pool, left_main_chunk_percentage, error, help,
           connections, databases, record_table, sessions >>

\* App.pool is the identity of the held adapter, or None.
NoPool == None

\* RecordTableComponent::new / reset.
RecordTableReset ==
    [ focus |-> "Table", filter |-> "", rows |-> << >>, headers |-> None,
      table |-> None, selected_row |-> -1, eod |-> FALSE ]

\* DatabasesComponent::new.
DatabasesNew == [tree |-> None, selected |-> None, focus |-> "Tree"]

\* The state an event handler works on.
State ==
    [ focus |-> focus, tab |-> selected_tab, pool |-> pool,
      pct |-> left_main_chunk_percentage, error |-> error, help |-> help,
      connections |-> connections, databases |-> databases,
      record_table |-> record_table, sessions |-> sessions,
      calls |-> << >>, resize |-> "NotCalled" ]

\* A handler's return: the state it leaves and Consumed, NotConsumed or Err.
Ret(s, r) == [s |-> s, r |-> r]

\* A backend call is recorded in the event's trace of calls: the call, the
\* adapter it is made on, its arguments, the sessions open when it is made
\* and whether it succeeds.
LogCall(s, op, table, offset, filter, ok) ==
    [s EXCEPT !.calls = Append(@,
        [ op |-> op, adapter |-> s.pool, table |-> table, offset |-> offset,
          filter |-> filter, live |-> s.sessions, ok |-> ok ])]

\* A call on the held adapter succeeds when it is not the failing one and
\* the adapter's session is open.
Succeeds(s, op, fail) == fail # op /\ s.pool \in s.sessions

\* ------------------------------------------------------------ components

\* DatabaseTree::selected_table: the table node highlighted in the tree.
selected_table(s) ==
    IF s.databases.selected \in Tables THEN s.databases.selected ELSE None

\* DatabasesComponent::tree_focused.
tree_focused(s) == s.databases.focus = "Tree"

\* RecordTableComponent::filter_focused.
filter_focused(s) == s.record_table.focus = "Filter"

\* TableFilterComponent::input_str, as get_records takes it.
input_str(s) == s.record_table.filter

\* ErrorComponent::event: a displayed error captures every key; the
\* exit_popup key dismisses it.
error_event(s, key) ==
    IF s.error
    THEN Ret([s EXCEPT !.error = IF key = "exit_popup" THEN FALSE ELSE @],
             "Consumed")
    ELSE Ret(s, "NotConsumed")

\* HelpComponent::event: open_help shows the overlay, exit_popup hides it.
help_event(s, key) ==
    IF s.help
    THEN IF key = "exit_popup"
         THEN Ret([s EXCEPT !.help = FALSE], "Consumed")
         ELSE Ret(s, "NotConsumed")
    ELSE IF key = "open_help"
         THEN Ret([s EXCEPT !.help = TRUE], "Consumed")
         ELSE Ret(s, "NotConsumed")

\* ConnectionsComponent::event: the scroll keys move the selection, which
\* stays on the one configured connection.
connections_event(s, key) ==
    IF s.connections = None \/ key \notin {"scroll_down", "scroll_up"}
    THEN Ret(s, "NotConsumed")
    ELSE Ret(s, "Consumed")

\* DatabasesComponent::event: the tree moves its selection (0 is a database
\* node), the filter input takes text and returns to the tree on enter.
databases_event(s, key) ==
    IF tree_focused(s)
    THEN CASE key = "filter" ->
                Ret([s EXCEPT !.databases.focus = "Filter"], "Consumed")
           [] key = "scroll_down" ->
                Ret([s EXCEPT !.databases.selected = Min(@ + 1, NumTables)],
                    "Consumed")
           [] key = "scroll_up" ->
                Ret([s EXCEPT !.databases.selected = Max(@ - 1, None)],
                    "Consumed")
           [] OTHER -> Ret(s, "NotConsumed")
    ELSE CASE key = "enter" ->
                Ret([s EXCEPT !.databases.focus = "Tree"], "Consumed")
           [] IsChar(key) -> Ret(s, "Consumed")
           [] OTHER -> Ret(s, "NotConsumed")

\* DatabasesComponent::update: the tree is rebuilt from the new adapter.
databases_update(s) ==
    [s EXCEPT !.databases = [tree |-> s.pool, selected |-> None, focus |-> "Tree"]]

\* TableComponent::next_row / previous_row, one line.
next_row(rt) ==
    IF rt.selected_row < 0 THEN rt
    ELSE [rt EXCEPT !.selected_row = Min(@ + 1, Len(rt.rows) - 1)]

previous_row(rt) ==
    IF rt.selected_row < 0 THEN rt
    ELSE [rt EXCEPT !.selected_row = Max(@ - 1, 0)]

\* RecordTableComponent::event: the filter key focuses the filter input;
\* the filter input takes text; the table scrolls. Scrolling down is
\* reported NotConsumed, so that the caller's pagination runs on it.
record_table_event(s, key) ==
    CASE key = "filter" ->
            Ret([s EXCEPT !.record_table.focus = "Filter"], "Consumed")
      [] key # "filter" /\ filter_focused(s) ->
            IF IsChar(key)
            THEN Ret([s EXCEPT !.record_table.filter = "f"], "Consumed")
            ELSE Ret(s, "NotConsumed")
      [] key = "scroll_down" /\ ~filter_focused(s) ->
            Ret([s EXCEPT !.record_table = next_row(@)], "NotConsumed")
      [] key = "scroll_up" /\ ~filter_focused(s) ->
            Ret([s EXCEPT !.record_table = previous_row(@)], "Consumed")
      [] OTHER -> Ret(s, "NotConsumed")

\* RecordTableComponent::update: the rows and header are replaced, the
\* first row is selected and end-of-data is set if the page is not full.
record_table_update(rt, records, headers, table) ==
    [rt EXCEPT !.rows = records, !.headers = headers, !.table = table,
               !.selected_row = IF records = << >> THEN -1 ELSE 0,
               !.eod = Len(records) < RECORDS_LIMIT_PER_PAGE]

\* TableComponent::end.
table_end(rt) == [rt EXCEPT !.eod = TRUE]

\* TabComponent::event: the tab key cycles Records, Sql, Properties.
tab_event(s, key) ==
    IF key = "toggle_tabs"
    THEN Ret([s EXCEPT !.tab = CASE @ = "Records" -> "Sql"
                                 [] @ = "Sql" -> "Properties"
                                 [] OTHER -> "Records"],
             "Consumed")
    ELSE Ret(s, "NotConsumed")

\* TabComponent::reset.
tab_reset(s) == [s EXCEPT !.tab = "Records"]

\* SqlEditorComponent::event: the editor takes text.
sql_editor_event(s, key) ==
    IF IsChar(key) THEN Ret(s, "Consumed")
    ELSE Ret(s, "NotConsumed")

\* SqlEditorComponent::async_event: enter runs the query on the adapter.
sql_editor_async_event(s, key, fail) ==
    IF key # "enter" THEN Ret(s, "NotConsumed")
    ELSE Ret(LogCall(s, "query", None, 0, "", Succeeds(s, "query", fail)),
             IF Succeeds(s, "query", fail) THEN "Consumed" ELSE "Err")

\* PropertiesComponent::event: the scroll keys are taken.
properties_event(s, key) ==
    IF key \in {"scroll_down", "scroll_up"} THEN Ret(s, "Consumed")
    ELSE Ret(s, "NotConsumed")

\* ----------------------------------------------------------------- App

\* Pool::close: releases the session; it never fails the caller.
pool_close(s) ==
    [LogCall(s, "close", None, 0, "", TRUE) EXCEPT !.sessions = @ \ {s.pool}]

\* The identity of the adapter the next open creates: the least one that is
\* neither open nor held.
FreshId(s) ==
    CHOOSE i \in 1..(MaxAdapters + 1) :
        /\ i \notin s.sessions
        /\ i # s.pool
        /\ \A j \in 1..(i - 1) : j \in s.sessions \/ j = s.pool

\* Mutant: a successful switch leaves the tab as it is.
update_databases_list_keep_tab(s, fail) ==
    IF fail = "list_schema"
    THEN Ret(LogCall(s, "list_schema", None, 0, "", FALSE), "Err")
    ELSE Ret([databases_update(LogCall(s, "list_schema", None, 0, "", TRUE))
                 EXCEPT !.focus = "DabataseList",
                        !.record_table = RecordTableReset],
             "Ok")

\* App::update_databases, the end: the schema tree is listed from the new
\* adapter, then focus, record table and tab are reset.
update_databases_list(s, fail) ==
    IF fail = "list_schema"
    THEN Ret(LogCall(s, "list_schema", None, 0, "", FALSE), "Err")
    ELSE Ret(tab_reset(
               [databases_update(LogCall(s, "list_schema", None, 0, "", TRUE))
                   EXCEPT !.focus = "DabataseList",
                          !.record_table = RecordTableReset]),
             "Ok")

\* App::update_databases, the middle: the pool of the selected connection is
\* opened and assigned to App.pool; a failed open leaves App.pool as it is.
update_databases_open(s, fail) ==
    IF fail = "open"
    THEN Ret(LogCall(s, "open", None, 0, "", FALSE), "Err")
    ELSE update_databases_list(
             [LogCall(s, "open", None, 0, "", TRUE)
                 EXCEPT !.pool = FreshId(s),
                        !.sessions = @ \cup {FreshId(s)}],
             fail)

\* Mutant: the held pool is not closed before the new one is opened.
update_databases_no_close(s, fail) ==
    IF s.connections = None THEN Ret(s, "Ok")
    ELSE update_databases_open(s, fail)

\* Mutant: the record table is reset before the new pool is opened, so a
\* failed switch clears it too.
update_databases_reset_first(s, fail) ==
    IF s.connections = None THEN Ret(s, "Ok")
    ELSE update_databases_open(
             [(IF s.pool # NoPool THEN pool_close(s) ELSE s)
                 EXCEPT !.record_table = RecordTableReset],
             fail)

\* Mutant: the focus moves to the tree before the new pool is opened, so a
\* failed switch moves it too.
update_databases_focus_first(s, fail) ==
    IF s.connections = None THEN Ret(s, "Ok")
    ELSE update_databases_open(
             [(IF s.pool # NoPool THEN pool_close(s) ELSE s)
                 EXCEPT !.focus = "DabataseList"],
             fail)

\* App::update_databases: the switch to the selected connection. The held
\* pool is closed first.
update_databases(s, fail) ==
    IF s.connections = None THEN Ret(s, "Ok")
    ELSE update_databases_open(IF s.pool # NoPool THEN pool_close(s) ELSE s,
                               fail)

\* The first page of a table replaces the record table's content.
record_table_fetch(s, table, filter, fail) ==
    IF s.pool = NoPool THEN Ret(s, "Panic")
    ELSE IF ~Succeeds(s, "get_records", fail)
    THEN Ret(LogCall(s, "get_records", table, 0, filter, FALSE), "Err")
    ELSE Ret([LogCall(s, "get_records", table, 0, filter, TRUE)
                 EXCEPT !.record_table =
                     record_table_update(@, GetRecords(table, 0, filter),
                                         Columns(table), table)],
             "Ok")

\* App::update_record_table: the first page of the tree's selected table
\* under the current filter.
update_record_table(s, fail) ==
    IF selected_table(s) = None THEN Ret(s, "Ok")
    ELSE record_table_fetch(s, selected_table(s), input_str(s), fail)

\* Mutant: narrowing is not held at the floor.
extend_or_shorten_no_floor(s, key) ==
    IF key = "extend_left"
    THEN Ret([s EXCEPT !.pct = Max(@ - PercentageStep, 0),
                       !.resize = "Consumed"], "Consumed")
    ELSE IF key = "extend_right"
    THEN Ret([s EXCEPT !.pct = Min((@ + PercentageStep) % U16, MaxPercentage),
                       !.resize = "Consumed"], "Consumed")
    ELSE Ret([s EXCEPT !.resize = "NotConsumed"], "NotConsumed")

\* Mutant: a resize key that does not change the ratio is not consumed.
extend_or_shorten_unchanged_not_consumed(s, key) ==
    IF key = "extend_left" /\ s.pct > MinPercentage
    THEN Ret([s EXCEPT !.pct = Max(Max(@ - PercentageStep, 0), MinPercentage),
                       !.resize = "Consumed"], "Consumed")
    ELSE IF key = "extend_right" /\ s.pct < MaxPercentage
    THEN Ret([s EXCEPT !.pct = Min((@ + PercentageStep) % U16, MaxPercentage),
                       !.resize = "Consumed"], "Consumed")
    ELSE Ret([s EXCEPT !.resize = "NotConsumed"], "NotConsumed")

\* App::extend_or_shorten_widget_width.
extend_or_shorten_widget_width(s, key) ==
    IF key = "extend_left"
    THEN Ret([s EXCEPT !.pct = Max(Max(@ - PercentageStep, 0), MinPercentage),
                       !.resize = "Consumed"], "Consumed")
    ELSE IF key = "extend_right"
    THEN Ret([s EXCEPT !.pct = Min((@ + PercentageStep) % U16, MaxPercentage),
                       !.resize = "Consumed"], "Consumed")
    ELSE Ret([s EXCEPT !.resize = "NotConsumed"], "NotConsumed")

\* Mutant: moving the focus back to the tree resets the tab.
move_focus_panel_tab_reset(s, key) ==
    CASE s.focus = "ConnectionList" /\ key = "enter" ->
            Ret([s EXCEPT !.focus = "DabataseList"], "Consumed")
      [] s.focus = "DabataseList" /\ key = "focus_right" /\ tree_focused(s) ->
            Ret([s EXCEPT !.focus = "Table"], "Consumed")
      [] s.focus = "Table" /\ key = "focus_left" ->
            Ret(tab_reset([s EXCEPT !.focus = "DabataseList"]), "Consumed")
      [] OTHER -> Ret(s, "NotConsumed")

\* App::move_focus, after the focus_connections and tab keys.
move_focus_panel(s, key) ==
    CASE s.focus = "ConnectionList" /\ key = "enter" ->
            Ret([s EXCEPT !.focus = "DabataseList"], "Consumed")
      [] s.focus = "DabataseList" /\ key = "focus_right" /\ tree_focused(s) ->
            Ret([s EXCEPT !.focus = "Table"], "Consumed")
      [] s.focus = "Table" /\ key = "focus_left" ->
            Ret([s EXCEPT !.focus = "DabataseList"], "Consumed")
      [] OTHER -> Ret(s, "NotConsumed")

\* App::move_focus.
move_focus(s, key) ==
    IF key = "focus_connections"
    THEN Ret([s EXCEPT !.focus = "ConnectionList"], "Consumed")
    ELSE IF tab_event(s, key).r = "Consumed" THEN tab_event(s, key)
    ELSE move_focus_panel(s, key)

\* App::components_event, Focus::ConnectionList: enter on the connection
\* list switches the connection.
connection_list_event(s, key, fail) ==
    IF connections_event(s, key).r = "Consumed" THEN connections_event(s, key)
    ELSE IF key = "enter"
    THEN Ret(update_databases(s, fail).s,
             IF update_databases(s, fail).r = "Ok" THEN "Consumed" ELSE "Err")
    ELSE Ret(s, "NotConsumed")

\* App::components_event, Focus::DabataseList, select_table's end: the
\* properties of the table are read and the focus moves to the data view.
select_table_properties(u, table, fail) ==
    IF u.r # "Ok" THEN u
    ELSE IF ~Succeeds(u.s, "properties", fail)
    THEN Ret(LogCall(u.s, "properties", table, 0, "", FALSE), "Err")
    ELSE Ret([LogCall(u.s, "properties", table, 0, "", TRUE)
                 EXCEPT !.focus = "Table"],
             "Consumed")

\* Mutant: the record table is not reset before the first page is fetched,
\* which is then fetched under the filter left in the input.
select_table_no_reset(s, table, fail) ==
    select_table_properties(
        record_table_fetch(s, table, input_str(s), fail), table, fail)

\* App::components_event, Focus::DabataseList, select_table: the record
\* table is reset, then filled with the first page of the table.
select_table(s, table, fail) ==
    select_table_properties(
        record_table_fetch([s EXCEPT !.record_table = RecordTableReset],
                           table, "", fail),
        table, fail)

\* App::components_event, Focus::DabataseList: enter on a table node of the
\* tree selects the table.
database_list_event(s, key, fail) ==
    IF databases_event(s, key).r = "Consumed" THEN databases_event(s, key)
    ELSE IF key = "enter" /\ tree_focused(s)
    THEN IF selected_table(s) = None THEN Ret(s, "Consumed")
         ELSE select_table(s, selected_table(s), fail)
    ELSE Ret(s, "NotConsumed")

\* App::components_event, Tab::Records: the result of the page fetched at a
\* page boundary is appended, or marks the end of the data.
paginate_fetch(s, table, offset, fail) ==
    IF s.pool = NoPool THEN Ret(s, "Panic")
    ELSE IF ~Succeeds(s, "get_records", fail)
    THEN Ret(LogCall(s, "get_records", table, offset, input_str(s), FALSE),
             "Err")
    ELSE IF GetRecords(table, offset, input_str(s)) # << >>
    THEN Ret([LogCall(s, "get_records", table, offset, input_str(s), TRUE)
                 EXCEPT !.record_table.rows =
                     @ \o GetRecords(table, offset, input_str(s))],
             "NotConsumed")
    ELSE Ret([LogCall(s, "get_records", table, offset, input_str(s), TRUE)
                 EXCEPT !.record_table = table_end(@)],
             "NotConsumed")

\* App::components_event, Tab::Records: a page is fetched when the selected
\* row sits on a page boundary, at the offset of its index.
paginate(s, fail) ==
    IF /\ s.record_table.selected_row >= 0
       /\ (s.record_table.selected_row + 1) % RECORDS_LIMIT_PER_PAGE = 0
       /\ selected_table(s) # None
    THEN paginate_fetch(s, selected_table(s),
                        s.record_table.selected_row % U16, fail)
    ELSE Ret(s, "NotConsumed")

\* App::components_event, Tab::Records, after the filter confirm: nothing
\* more at the end of the data, else the pagination.
records_after_confirm(u, fail) ==
    IF u.r # "Ok" THEN u
    ELSE IF u.s.record_table.eod THEN Ret(u.s, "Consumed")
    ELSE paginate(u.s, fail)

\* App::components_event, Tab::Records, a key the record table left: enter
\* on the filter input confirms the filter.
records_unconsumed(s, key, fail) ==
    records_after_confirm(
        IF key = "enter" /\ filter_focused(s)
        THEN update_record_table([s EXCEPT !.record_table.focus = "Table"],
                                 fail)
        ELSE Ret(s, "Ok"),
        fail)

\* App::components_event, Focus::Table and Tab::Records.
records_event(s, key, fail) ==
    IF record_table_event(s, key).r = "Consumed"
    THEN record_table_event(s, key)
    ELSE records_unconsumed(record_table_event(s, key).s, key, fail)

\* App::components_event, Focus::Table: the panel of the selected tab.
table_focus_event(s, key, fail) ==
    CASE s.tab = "Records" -> records_event(s, key, fail)
      [] s.tab = "Sql" ->
            IF sql_editor_event(s, key).r = "Consumed"
            THEN sql_editor_event(s, key)
            ELSE IF s.pool = NoPool THEN Ret(s, "Panic")
            ELSE sql_editor_async_event(s, key, fail)
      [] OTHER -> properties_event(s, key)

\* App::components_event, the panel that has the focus.
focused_panel_event(s, key, fail) ==
    CASE s.focus = "ConnectionList" -> connection_list_event(s, key, fail)
      [] s.focus = "DabataseList" -> database_list_event(s, key, fail)
      [] OTHER -> table_focus_event(s, key, fail)

\* App::components_event, the end: a key the focused panel left goes to the
\* resize bindings.
components_event_resize(p, key) ==
    IF p.r # "NotConsumed" THEN p
    ELSE extend_or_shorten_widget_width(p.s, key)

\* Mutant: the error overlay takes only the key that dismisses it.
components_event_error_key_only(s, key, fail) ==
    IF error_event(s, key).r = "Consumed" /\ key = "exit_popup"
    THEN error_event(s, key)
    ELSE IF s.focus # "ConnectionList" /\ help_event(s, key).r = "Consumed"
    THEN help_event(s, key)
    ELSE components_event_resize(focused_panel_event(s, key, fail), key)

\* App::components_event: the error overlay, the help overlay (not on the
\* connection list), the focused panel, then the resize keys.
components_event(s, key, fail) ==
    IF error_event(s, key).r = "Consumed" THEN error_event(s, key)
    ELSE IF s.focus # "ConnectionList" /\ help_event(s, key).r = "Consumed"
    THEN help_event(s, key)
    ELSE components_event_resize(focused_panel_event(s, key, fail), key)

\* App::event, the end: a key components_event left goes to move_focus.
event_move_focus(c, key) ==
    IF c.r # "NotConsumed" THEN c
    ELSE move_focus(c.s, key)

\* App::event.
event(s, key, fail) == event_move_focus(components_event(s, key, fail), key)

\* The input loop, the end: an event that fails has its error shown.
handle_result(r) ==
    IF r.r = "Err" THEN Ret([r.s EXCEPT !.error = TRUE], "Err") ELSE r

\* The input loop: one key is handled to the end before the next is read.
handle(s, key, fail) == handle_result(event(s, key, fail))

\* ------------------------------------------------------- specification

\* App::new, with a configuration of one connection or of none.
Init ==
    /\ focus = "ConnectionList"
    /\ selected_tab = "Records"
    /\ pool = NoPool
    /\ left_main_chunk_percentage = InitialPercentage
    /\ error = FALSE
    /\ help = FALSE
    /\ connections \in {None, 1}
    /\ databases = DatabasesNew
    /\ record_table = RecordTableReset
    /\ sessions = {}

\* The backend calls an event on this key may issue, any of which may fail.
PossibleFails(key) ==
    IF error THEN {"none"}
    ELSE CASE focus = "ConnectionList" /\ key = "enter" ->
                {"none", "open", "list_schema"}
           [] focus = "DabataseList" /\ key = "enter" ->
                {"none", "get_records", "properties"}
           [] focus = "Table" /\ selected_tab = "Records" ->
                {"none", "get_records"}
           [] focus = "Table" /\ selected_tab = "Sql" /\ key = "enter" ->
                {"none", "query"}
           [] OTHER -> {"none"}

\* The model's bounds: the accumulated rows, the adapters and (with a
\* connection configured) the widening of the side panel are capped.
WithinBounds(s) ==
    /\ Len(s.record_table.rows) <= MaxCache
    /\ Cardinality(s.sessions) <= MaxAdapters
    /\ \/ s.connections = None
       \/ s.pct <= InitialPercentage + MaxWiden * PercentageStep

\* The state an event leaves becomes the state of the program.
Becomes(r, fail) ==
    /\ fail = "none" \/ r.r = "Err"
    /\ r.r # "Panic"
    /\ WithinBounds(r.s)
    /\ focus' = r.s.focus
    /\ selected_tab' = r.s.tab
    /\ pool' = r.s.pool
    /\ left_main_chunk_percentage' = r.s.pct
    /\ error' = r.s.error
    /\ help' = r.s.help
    /\ connections' = r.s.connections
    /\ databases' = r.s.databases
    /\ record_table' = r.s.record_table
    /\ sessions' = r.s.sessions

\* One key event, handled to its end, backend calls included.
Event(key, fail) == Becomes(handle(State, key, fail), fail)

\* A key pressed while the connection list has the focus.
KeyOnConnectionList ==
    /\ focus = "ConnectionList"
    /\ \E key \in Keys : \E fail \in PossibleFails(key) : Event(key, fail)

\* A key pressed while the database tree has the focus.
KeyOnDatabaseList ==
    /\ focus = "DabataseList"
    /\ \E key \in Keys : \E fail \in PossibleFails(key) : Event(key, fail)

\* A key pressed while the data view has the focus.
KeyOnTable ==
    /\ focus = "Table"
    /\ \E key \in Keys : \E fail \in PossibleFails(key) : Event(key, fail)

Next == KeyOnConnectionList \/ KeyOnDatabaseList \/ KeyOnTable

Spec == Init /\ [][Next]_vars

\* ---------------------------------------------------------------- claims

\* The operations of the calls of an event, in order.
CallOps(calls) == [i \in 1..Len(calls) |-> calls[i].op]

\* The record page cache: rows, header, table identity, filter, end of data.
CacheOf(rt) ==
    [ rows |-> rt.rows, headers |-> rt.headers, table |-> rt.table,
      filter |-> rt.filter, eod |-> rt.eod ]

\* Every open of the event is made with no session open.
OpensAfterClose(calls) ==
    \A i \in 1..Len(calls) : calls[i].op = "open" => calls[i].live = {}

\* C1: in every reachable state at most one adapter session is open, and
\* whatever key comes next, every open it makes is made when no session is
\* open: the held adapter is closed before the new one is opened.
C1_AtMostOneSessionOpen ==
    /\ Cardinality(sessions) <= 1
    /\ \A key \in Keys : \A fail \in PossibleFails(key) :
          OpensAfterClose(handle(State, key, fail).s.calls)

\* C1 witness: an open adapter is held on the connection list, and the
\* switch (here failing at list_schema) closes it, then opens another.
C1_Witness ==
    /\ focus = "ConnectionList" /\ ~error /\ pool \in sessions
    /\ CallOps(handle(State, "enter", "list_schema").s.calls)
           = << "close", "open", "list_schema" >>
    /\ handle(State, "enter", "list_schema").s.pool # pool
    /\ handle(State, "enter", "list_schema").s.sessions
           = {handle(State, "enter", "list_schema").s.pool}

\* C2 (as claimed): an event that fails while the connection list has the
\* focus (a switch failing at open or at list_schema) leaves no adapter held
\* and the focus on the connection list.
C2_FailedSwitchHoldsNoAdapter ==
    [][ (focus = "ConnectionList" /\ ~error /\ error')
            => (pool' = NoPool /\ focus' = "ConnectionList") ]_vars

\* C3 (as claimed): an event whose get_records call fails leaves the record
\* page cache as it was.
C3_FailedFetchLeavesCache ==
    [][ \A key \in Keys :
            Event(key, "get_records")
                => CacheOf(record_table') = CacheOf(record_table) ]_vars

\* The fetches of a scroll are one fetch, made before the end of the data,
\* with the selected row on a page boundary, at the offset of its 1-based
\* position.
ScrollFetchAtPosition(s) ==
    \A i \in 1..Len(s.calls) :
        s.calls[i].op = "get_records" =>
            /\ Len(s.calls) = 1
            /\ ~record_table.eod
            /\ (s.record_table.selected_row + 1) % RECORDS_LIMIT_PER_PAGE = 0
            /\ s.calls[i].offset = s.record_table.selected_row + 1

\* C4 (as claimed): scrolling in the records tab fetches only when the
\* 1-based position of the selected row is a multiple of the page size and
\* the end of the data is not reached, once, at the offset of that position.
C4_ScrollFetchesAtPosition ==
    (focus = "Table" /\ selected_tab = "Records" /\ ~error) =>
        \A fail \in {"none", "get_records"} :
            ScrollFetchAtPosition(handle(State, "scroll_down", fail).s)

\* C5 (as claimed): the rows of the cache (no filter set) are the first rows
\* of the selected table, in order, none twice and none skipped, and never
\* more than the table has.
C5_CacheIsPrefixOfTable ==
    (record_table.table # None /\ record_table.filter = "") =>
        /\ Len(record_table.rows) <= TableRows(record_table.table)
        /\ record_table.rows =
               SubSeq(AllRows(record_table.table, ""), 1,
                      Len(record_table.rows))

\* The event is enter on a table node of the focused tree.
SelectTableStep ==
    /\ focus = "DabataseList" /\ ~error
    /\ tree_focused(State) /\ selected_table(State) # None
    /\ \E fail \in Fails : Event("enter", fail)

\* The event is enter on the filter input of the records tab.
FilterConfirmStep ==
    /\ focus = "Table" /\ selected_tab = "Records" /\ ~error
    /\ filter_focused(State)
    /\ \E fail \in Fails : Event("enter", fail)

\* The event is a switch of the connection that succeeds.
SwitchStep ==
    /\ focus = "ConnectionList" /\ ~error /\ connections # None
    /\ Event("enter", "none")

\* C6 (as claimed): the end-of-data flag, once set, is cleared only by
\* selecting a table or confirming the filter. (The claim allows only the
\* confirm of a changed filter; this formula allows any confirm, so what
\* violates it violates the claim.)
C6_EodClearedOnlyByTableOrFilter ==
    [][ (record_table.eod /\ ~record_table.eod')
            => (SelectTableStep \/ FilterConfirmStep) ]_vars

\* C6 (amended): the end-of-data flag, once set, is cleared only by
\* selecting a table, confirming the filter or a successful switch of the
\* connection.
C6_EodClearedOnlyByReset ==
    [][ (record_table.eod /\ ~record_table.eod')
            => (SelectTableStep \/ FilterConfirmStep \/ SwitchStep) ]_vars

\* C6 witness: the end of the data of table 1 is reached, and a key that
\* resets nothing (scroll_up) leaves the flag set.
C6_Witness ==
    /\ focus = "Table" /\ selected_tab = "Records" /\ ~error
    /\ record_table.eod /\ record_table.table = 1
    /\ handle(State, "scroll_up", "none").s.record_table.eod

\* After a successful select_table the cache is the first page of the table
\* and nothing else, and end-of-data is set only if that page is short.
SelectTablePost(r, table) ==
    r.r = "Consumed" =>
        /\ r.s.focus = "Table"
        /\ r.s.record_table.table = table
        /\ r.s.record_table.headers = Columns(table)
        /\ r.s.record_table.rows = GetRecords(table, 0, "")
        /\ \A i \in 1..Len(r.s.record_table.rows) :
              r.s.record_table.rows[i].table = table
        /\ r.s.record_table.eod
              => Len(r.s.record_table.rows) < RECORDS_LIMIT_PER_PAGE

\* C7: enter on a table node of the focused tree, when it succeeds, leaves
\* in the cache exactly the first page (offset 0) of that table, whatever
\* the cache held, with end-of-data false unless that page is short.
C7_SelectTableReplacesCache ==
    (focus = "DabataseList" /\ ~error /\ tree_focused(State)
        /\ selected_table(State) # None)
    => SelectTablePost(handle(State, "enter", "none"), selected_table(State))

\* C7 witness: the cache holds the rows of table 1 with end-of-data set, and
\* table 2 is selected in the tree and confirmed with success.
C7_Witness ==
    /\ focus = "DabataseList" /\ ~error /\ tree_focused(State)
    /\ record_table.table = 1 /\ record_table.eod
    /\ Len(record_table.rows) > RECORDS_LIMIT_PER_PAGE
    /\ selected_table(State) = 2
    /\ handle(State, "enter", "none").r = "Consumed"

\* The event was taken by the overlay alone: consumed, with no backend call,
\* no resize, and focus, tab and every panel as they were.
OverlayOnly(r) ==
    /\ r.r = "Consumed"
    /\ r.s.focus = focus /\ r.s.tab = selected_tab
    /\ r.s.calls = << >> /\ r.s.resize = "NotCalled"
    /\ r.s.pct = left_main_chunk_percentage
    /\ r.s.pool = pool /\ r.s.sessions = sessions
    /\ r.s.connections = connections /\ r.s.databases = databases
    /\ r.s.record_table = record_table /\ r.s.help = help

\* C8: while an error is displayed, every key is consumed by the error
\* overlay: focus and tab stay, and no panel handler, resize binding or
\* backend call runs.
C8_ErrorOverlayCapturesInput ==
    error => \A key \in Keys : \A fail \in Fails :
                 OverlayOnly(handle(State, key, fail))

\* C8 witness: an error (of a failed query) is displayed over the Sql tab of
\* the data view, and the focus_left key leaves the focus there.
C8_Witness ==
    /\ error /\ focus = "Table" /\ selected_tab = "Sql"
    /\ handle(State, "focus_left", "none").r = "Consumed"
    /\ handle(State, "focus_left", "none").s.focus = "Table"

\* C9: the layout ratio stays within 15..70.
C9_RatioWithinRange ==
    left_main_chunk_percentage \in MinPercentage..MaxPercentage

\* C9 witness: the ratio has been widened to its ceiling.
C9_Witness ==
    /\ left_main_chunk_percentage = MaxPercentage
    /\ handle(State, "extend_right", "none").s.pct = MaxPercentage

\* What extend_or_shorten_widget_width is to return for a key and a ratio.
ResizePost(r, key) ==
    CASE key = "extend_right" ->
            /\ r.r = "Consumed"
            /\ r.s.pct = IF left_main_chunk_percentage + 5 < 70
                         THEN left_main_chunk_percentage + 5 ELSE 70
      [] key = "extend_left" ->
            /\ r.r = "Consumed"
            /\ r.s.pct = IF left_main_chunk_percentage - 5 > 15
                         THEN left_main_chunk_percentage - 5 ELSE 15
      [] OTHER ->
            /\ r.r = "NotConsumed"
            /\ r.s.pct = left_main_chunk_percentage

\* C10: extend_or_shorten_widget_width sets the ratio to min(ratio + 5, 70)
\* on the widen key and to max(ratio - 5, 15) on the narrow key, Consumed in
\* both cases even at the bound, and is NotConsumed with the ratio unchanged
\* on any other key.
C10_ResizeResult ==
    \A key \in Keys :
        ResizePost(extend_or_shorten_widget_width(State, key), key)

\* C10 witness: with the tree focused and the ratio widened once, the narrow
\* key is consumed and brings it back to the floor, where it is consumed
\* again and changes nothing; a key bound to nothing is not consumed.
C10_Witness ==
    /\ focus = "DabataseList"
    /\ left_main_chunk_percentage = MinPercentage + PercentageStep
    /\ extend_or_shorten_widget_width(State, "extend_left").r = "Consumed"
    /\ extend_or_shorten_widget_width(
           extend_or_shorten_widget_width(State, "extend_left").s,
           "extend_left").s.pct = MinPercentage
    /\ extend_or_shorten_widget_width(State, "other").r = "NotConsumed"

\* A text input has the focus (the filter of the tree, the filter of the
\* records tab or the SQL editor): it takes the printable keys as text.
TextInputFocused ==
    \/ focus = "DabataseList" /\ ~tree_focused(State)
    \/ focus = "Table" /\ selected_tab = "Records" /\ filter_focused(State)
    \/ focus = "Table" /\ selected_tab = "Sql"

\* The event moved the focus to the connection list and left the adapter
\* held and its session as they were.
FocusConnectionsPost(r) ==
    /\ r.s.focus = "ConnectionList"
    /\ r.s.pool = pool /\ r.s.sessions = sessions
    /\ \A i \in 1..Len(r.s.calls) : r.s.calls[i].op # "close"

\* C11 (as claimed): with no error displayed, the focus_connections key
\* moves the focus to the connection list, whatever the focused panel, the
\* tab and the cache (end-of-data included), and does not close the held
\* adapter. (Stated here for the states where no text input has the focus;
\* what violates it violates the claim.)
C11_FocusConnectionsUnconditional ==
    (~error /\ ~TextInputFocused) =>
        FocusConnectionsPost(handle(State, "focus_connections", "none"))

\* C12 (as claimed): the tab key pressed while the connection list or the
\* tree has the focus leaves the tab as it is.
C12_TabCyclesOnlyInDataView ==
    (focus \in {"ConnectionList", "DabataseList"} /\ ~error) =>
        handle(State, "toggle_tabs", "none").s.tab = selected_tab

\* The component of the focused panel does not take the key.
PanelLeaves(key) ==
    CASE focus = "ConnectionList" ->
            connections_event(State, key).r = "NotConsumed"
      [] focus = "DabataseList" ->
            databases_event(State, key).r = "NotConsumed"
      [] focus = "Table" /\ selected_tab = "Records" ->
            record_table_event(State, key).r = "NotConsumed"
      [] focus = "Table" /\ selected_tab = "Sql" ->
            sql_editor_event(State, key).r = "NotConsumed"
      [] OTHER -> properties_event(State, key).r = "NotConsumed"

\* The event is reported NotConsumed and changed nothing, with no backend
\* call.
NothingDone(r) ==
    /\ r.r = "NotConsumed"
    /\ r.s.calls = << >>
    /\ r.s.focus = focus /\ r.s.tab = selected_tab
    /\ r.s.pct = left_main_chunk_percentage
    /\ r.s.pool = pool /\ r.s.sessions = sessions
    /\ CacheOf(r.s.record_table) = CacheOf(record_table)

\* C13 (as claimed): a key bound to nothing, which no overlay and no panel
\* takes, is reported NotConsumed by App::event and changes nothing, with no
\* backend call, in every state (end-of-data set and page boundary
\* included).
C13_UnmatchedKeyChangesNothing ==
    (~error /\ PanelLeaves("other")) =>
        \A fail \in {"none", "get_records"} :
            NothingDone(handle(State, "other", fail))

\* What a successful switch leaves: a new adapter held, its session the only
\* one open, the tree listed from it, the record table and the tab reset and
\* the focus on the tree.
SwitchPost(r) ==
    /\ r.r = "Consumed" /\ ~r.s.error
    /\ r.s.pool # NoPool /\ r.s.pool # pool
    /\ r.s.sessions = {r.s.pool}
    /\ \E i \in 1..Len(r.s.calls) :
          r.s.calls[i].op = "list_schema" /\ r.s.calls[i].adapter = r.s.pool
    /\ r.s.databases = [tree |-> r.s.pool, selected |-> None, focus |-> "Tree"]
    /\ r.s.record_table = RecordTableReset
    /\ r.s.tab = "Records"
    /\ r.s.focus = "DabataseList"

\* C14: a switch whose open and list_schema succeed replaces the held
\* adapter by the newly opened one, lists the tree from it, resets the record
\* page cache and the tab (empty cache, Records) and moves the focus to the
\* tree, whatever the cache, the tab and the adapter were.
C14_SuccessfulSwitchResets ==
    (focus = "ConnectionList" /\ ~error /\ connections # None) =>
        SwitchPost(handle(State, "enter", "none"))

\* C14 witness: on the connection list with an open adapter held, a cache
\* filled to the end of its data and the Sql tab selected, the switch
\* succeeds.
C14_Witness ==
    /\ focus = "ConnectionList" /\ ~error /\ pool \in sessions
    /\ record_table.rows # << >> /\ record_table.eod
    /\ selected_tab = "Sql"
    /\ handle(State, "enter", "none").r = "Consumed"
    /\ handle(State, "enter", "none").s.focus = "DabataseList"

\* The event does not fail for want of an adapter, and each of its calls
\* that needs a live adapter is made on one whose session is open.
LiveCalls(r) ==
    /\ r.r # "Panic"
    /\ \A i \in 1..Len(r.s.calls) :
          r.s.calls[i].op \in {"list_schema", "get_records", "properties",
                                "query"}
              => /\ r.s.calls[i].adapter # NoPool
                 /\ r.s.calls[i].adapter \in r.s.calls[i].live

\* C15: whenever the tree or the data view has the focus an adapter is held
\* and its session is open, and whatever key comes next, no operation that
\* unwraps the pool runs without an adapter or on a closed one.
C15_AdapterLiveOffConnectionList ==
    /\ focus \in {"DabataseList", "Table"}
          => (pool # NoPool /\ pool \in sessions)
    /\ \A key \in Keys : \A fail \in PossibleFails(key) :
          LiveCalls(handle(State, key, fail))

\* C15 witness: after a switch that failed at open, the closed adapter is
\* still held on the connection list; the next switch succeeds and the tree
\* gets the focus with an open adapter.
C15_Witness ==
    /\ focus = "ConnectionList" /\ ~error
    /\ pool # NoPool /\ pool \notin sessions
    /\ handle(State, "enter", "none").s.focus = "DabataseList"
    /\ handle(State, "enter", "none").s.pool
           \in handle(State, "enter", "none").s.sessions

\* Every page of the event that came back short left end-of-data set.
ShortPageSetsEod(r) ==
    \A i \in 1..Len(r.s.calls) :
        ( /\ r.s.calls[i].op = "get_records" /\ r.s.calls[i].ok
          /\ Len(GetRecords(r.s.calls[i].table, r.s.calls[i].offset,
                            r.s.calls[i].filter)) < RECORDS_LIMIT_PER_PAGE )
        => r.s.record_table.eod

\* C16 (as claimed): whenever a fetch of an event (first page or scrolled
\* page) returns fewer rows than the page size, an empty or a non-empty
\* short page, end-of-data is set after the event.
C16_ShortPageSetsEod ==
    ~error => \A key \in Keys : ShortPageSetsEod(handle(State, key, "none"))

\* C17 (as claimed): every row of the cache is a row of the table the cache
\* records as its own, and has the length of the header.
C17_RowsOfCacheTable ==
    \A i \in 1..Len(record_table.rows) :
        /\ record_table.rows[i].table = record_table.table
        /\ Columns(record_table.rows[i].table) = record_table.headers

\* C18: the tab changes only on the tab key and on a successful switch of
\* the connection: moving the focus left or right and confirming a table
\* leave it, so the data view is entered again on the tab it was left on.
C18_TabKeptAcrossFocusMoves ==
    [][ selected_tab' # selected_tab
            => (Event("toggle_tabs", "none") \/ SwitchStep) ]_vars

\* C18 witness: the data view is left on the Properties tab by focus_left;
\* the tree has the focus with that tab kept, and both focus_right and enter
\* on the table node bring the data view back on it.
C18_Witness ==
    /\ focus = "Table" /\ selected_tab = "Properties" /\ ~error /\ ~help
    /\ selected_table(State) # None
    /\ handle(State, "focus_left", "none").s.focus = "DabataseList"
    /\ handle(State, "focus_left", "none").s.tab = "Properties"
    /\ handle(handle(State, "focus_left", "none").s, "focus_right", "none").s
           .focus = "Table"
    /\ handle(handle(State, "focus_left", "none").s, "focus_right", "none").s
           .tab = "Properties"
    /\ handle(handle(State, "focus_left", "none").s, "enter", "none").s
           .focus = "Table"
    /\ handle(handle(State, "focus_left", "none").s, "enter", "none").s
           .tab = "Properties"

\* C19 (as claimed): with no table selected in the tree, the focus_right key
\* leaves the focus on the tree.
C19_MoveRightNeedsSelection ==
    (focus = "DabataseList" /\ ~error /\ selected_table(State) = None) =>
        handle(State, "focus_right", "none").s.focus = "DabataseList"

\* The resize keys and the keys that move the focus or the tab.
GlobalKeys ==
    { "extend_right", "extend_left", "focus_left", "focus_connections",
      "toggle_tabs" }

\* The event made no backend call and left the rows of the cache.
NoFetch(r) ==
    /\ r.s.calls = << >>
    /\ r.s.record_table.rows = record_table.rows

\* C20 (as claimed): in the records tab of the data view, a resize key or a
\* key that moves the focus or the tab fetches nothing and leaves the rows
\* of the cache, the selected row on a page boundary included.
C20_GlobalKeysFetchNothing ==
    (focus = "Table" /\ selected_tab = "Records" /\ ~error) =>
        \A key \in GlobalKeys : NoFetch(handle(State, key, "none"))

====
